---- MODULE Spec2Model ----
(***************************************************************************)
(* Codex Mission Control, gui/main.py: the agent lifecycle endpoint, the   *)
(* bounded audit log, the task-queue endpoints and the log stream.         *)
(*                                                                         *)
(* Every endpoint is an `async def` whose body contains no `await`, and    *)
(* the application is served by one uvicorn event loop (main.py:436-444),  *)
(* so a handler that has started runs to its return or raise before any    *)
(* other handler starts.  Each handler is therefore one action; requests   *)
(* that are in flight at the same time are handled in an arbitrary order,  *)
(* which is the nondeterministic choice of the next action and its input.  *)
(* The generator of /api/logs/stream is the exception: it is suspended at  *)
(* every `yield` and at `await asyncio.sleep`, and other code runs between *)
(* two of its steps.                                                       *)
(***************************************************************************)
EXTENDS Integers, Sequences, FiniteSets, TLC

\* ---- bounds ------------------------------------------------------------
MaxCalls == 4      \* handler calls explored from the first state
PreCalls == 98     \* start calls already handled in the first state of SpecFull
MaxLines == 3      \* log lines published

\* ---- program constants -------------------------------------------------
AuditCapacity == 100

None == "None"
QUEUE_FILE == "codex-task-queue.json"
FEATURES_FILE == "codex-features.json"

\* ---- request inputs ----------------------------------------------------
ControlActions == {"start", "pause", "resume", "stop", "restart"}
StartArgs == {[role |-> None, feature_id |-> None], [role |-> "coder", feature_id |-> "F1"]}
FeatureIds == {"F1", "F2", "F9"}
CatalogIds == <<"F1", "F2">>
Priorities == {"normal"}
UpdateStatuses == {"in_progress", "done"}

AgentControl ==
    {[action |-> a, role |-> s.role, feature_id |-> s.feature_id] : a \in {"start"}, s \in StartArgs}
    \cup {[action |-> a, role |-> None, feature_id |-> None] : a \in ControlActions \ {"start"}}
TaskCreate == {[feature_id |-> f, priority |-> p] : f \in FeatureIds, p \in Priorities}
TaskUpdate == {[status |-> s] : s \in UpdateStatuses}

Subscribers == {"s1", "s2"}
LogLines == {"a", "b"}

VARIABLES agent_state, disk, clock, history, appended, log_buffer, sessions
vars == <<agent_state, disk, clock, history, appended, log_buffer, sessions>>

\* ---- Python dict / list helpers ---------------------------------------
EmptyDict == [k \in {} |-> None]
Put(d, k, v) == [j \in (DOMAIN d) \cup {k} |-> IF j = k THEN v ELSE d[j]]
Get(d, k, default) == IF k \in DOMAIN d THEN d[k] ELSE default
Contains(s, v) == \E i \in 1..Len(s) : s[i] = v

\* datetime.now(timezone.utc).isoformat(): the reading of the clock as text
isoformat(t) == ToString(t)

\* ---- persistence (json.load / json.dump of dicts of str and None keep   *)
\* ---- every key and value, so a document is stored as the dict itself) --
load_json_file(files, filename) ==
    IF filename \in DOMAIN files THEN files[filename] ELSE EmptyDict

save_json_file(files, filename, data) == Put(files, filename, data)

\* What open(path, "w") followed by an interrupted json.dump leaves behind: a
\* cut-off text, which is not a JSON document (json.load raises on it).
TruncatedFile == [k \in {"<cut-off json text>"} |-> None]

json_load_raises(files, filename) ==
    filename \in DOMAIN files /\ files[filename] = TruncatedFile

\* save_json_file raising an IOError: in open() (the file is not touched) or
\* after open() has emptied the file, while json.dump writes.
SaveFailures == {"open", "write"}

save_json_file_raises(files, filename, data, at) ==
    IF at = "open" THEN files ELSE Put(files, filename, TruncatedFile)

\* ---- audit log ---------------------------------------------------------
\* variant: the log is never cut back
add_audit_log_NoTrim(log, action, details, now) ==
    Append(log, [timestamp |-> isoformat(now), action |-> action, details |-> details])

\* variant: the slice keeps the head of the list ([:100]) instead of its tail
add_audit_log_KeepFirst(log, action, details, now) ==
    LET entry == [timestamp |-> isoformat(now), action |-> action, details |-> details]
        grown == Append(log, entry)
    IN  IF Len(grown) > AuditCapacity THEN SubSeq(grown, 1, AuditCapacity) ELSE grown

add_audit_log(log, action, details, now) ==
    LET entry == [timestamp |-> isoformat(now), action |-> action, details |-> details]
        grown == Append(log, entry)
    IN  IF Len(grown) > AuditCapacity
        THEN SubSeq(grown, Len(grown) - AuditCapacity + 1, Len(grown))
        ELSE grown

\* A handler's outcome: the new agent_state and files, the response, the
\* clock after its datetime.now() calls, and the add_audit_log calls it made.
Outcome(st, files, response, now, logged) ==
    [state |-> st, files |-> files, response |-> response, clock |-> now, logged |-> logged]

HTTPException(code, detail) == [code |-> code, detail |-> detail]
\* an exception that no handler catches is answered by the framework
ServerError == [code |-> 500, detail |-> "Internal Server Error"]
Ok(body) == [code |-> 200, body |-> body]

\* ---- POST /api/agent/control -------------------------------------------
control_start(st, files, control, now) ==
    LET details == [role |-> control.role, feature_id |-> control.feature_id]
        s1 == [st EXCEPT !.status = "running",
                         !.current_role = control.role,
                         !.current_feature = control.feature_id,
                         !.started_at = isoformat(now)]
        s2 == [s1 EXCEPT !.audit_log = add_audit_log(s1.audit_log, "agent_started", details, now + 1)]
    IN  Outcome(s2, files, Ok([status |-> s2.status]), now + 2,
                <<[timestamp |-> isoformat(now + 1), action |-> "agent_started", details |-> details]>>)

\* variant: no check of the current status
control_pause_NoCheck(st, files, control, now) ==
    LET s1 == [st EXCEPT !.status = "paused"]
        s2 == [s1 EXCEPT !.audit_log = add_audit_log(s1.audit_log, "agent_paused", EmptyDict, now)]
    IN  Outcome(s2, files, Ok([status |-> s2.status]), now + 1,
                <<[timestamp |-> isoformat(now), action |-> "agent_paused", details |-> EmptyDict]>>)

\* variant: only an idle agent is refused
control_pause_IdleOnly(st, files, control, now) ==
    IF st.status = "idle"
    THEN Outcome(st, files, HTTPException(400, "Agent not running"), now, <<>>)
    ELSE LET s1 == [st EXCEPT !.status = "paused"]
             s2 == [s1 EXCEPT !.audit_log = add_audit_log(s1.audit_log, "agent_paused", EmptyDict, now)]
         IN  Outcome(s2, files, Ok([status |-> s2.status]), now + 1,
                     <<[timestamp |-> isoformat(now), action |-> "agent_paused", details |-> EmptyDict]>>)

control_pause(st, files, control, now) ==
    IF st.status # "running"
    THEN Outcome(st, files, HTTPException(400, "Agent not running"), now, <<>>)
    ELSE LET s1 == [st EXCEPT !.status = "paused"]
             s2 == [s1 EXCEPT !.audit_log = add_audit_log(s1.audit_log, "agent_paused", EmptyDict, now)]
         IN  Outcome(s2, files, Ok([status |-> s2.status]), now + 1,
                     <<[timestamp |-> isoformat(now), action |-> "agent_paused", details |-> EmptyDict]>>)

\* variant: the status is written before it is checked
control_resume_WriteFirst(st, files, control, now) ==
    LET s1 == [st EXCEPT !.status = "running"]
    IN  IF st.status # "paused"
        THEN Outcome(s1, files, HTTPException(400, "Agent not paused"), now, <<>>)
        ELSE LET s2 == [s1 EXCEPT !.audit_log = add_audit_log(s1.audit_log, "agent_resumed", EmptyDict, now)]
             IN  Outcome(s2, files, Ok([status |-> s2.status]), now + 1,
                         <<[timestamp |-> isoformat(now), action |-> "agent_resumed", details |-> EmptyDict]>>)

\* variant: the audit action is the one of the pause branch
control_resume_LogsPaused(st, files, control, now) ==
    IF st.status # "paused"
    THEN Outcome(st, files, HTTPException(400, "Agent not paused"), now, <<>>)
    ELSE LET s1 == [st EXCEPT !.status = "running"]
             s2 == [s1 EXCEPT !.audit_log = add_audit_log(s1.audit_log, "agent_paused", EmptyDict, now)]
         IN  Outcome(s2, files, Ok([status |-> s2.status]), now + 1,
                     <<[timestamp |-> isoformat(now), action |-> "agent_paused", details |-> EmptyDict]>>)

control_resume(st, files, control, now) ==
    IF st.status # "paused"
    THEN Outcome(st, files, HTTPException(400, "Agent not paused"), now, <<>>)
    ELSE LET s1 == [st EXCEPT !.status = "running"]
             s2 == [s1 EXCEPT !.audit_log = add_audit_log(s1.audit_log, "agent_resumed", EmptyDict, now)]
         IN  Outcome(s2, files, Ok([status |-> s2.status]), now + 1,
                     <<[timestamp |-> isoformat(now), action |-> "agent_resumed", details |-> EmptyDict]>>)

\* variant: the role is left as the last start set it
control_stop_KeepsRole(st, files, control, now) ==
    LET s1 == [st EXCEPT !.status = "idle",
                         !.current_feature = None]
        s2 == [s1 EXCEPT !.audit_log = add_audit_log(s1.audit_log, "agent_stopped", EmptyDict, now)]
    IN  Outcome(s2, files, Ok([status |-> s2.status]), now + 1,
                <<[timestamp |-> isoformat(now), action |-> "agent_stopped", details |-> EmptyDict]>>)

control_stop(st, files, control, now) ==
    LET s1 == [st EXCEPT !.status = "idle",
                         !.current_role = None,
                         !.current_feature = None]
        s2 == [s1 EXCEPT !.audit_log = add_audit_log(s1.audit_log, "agent_stopped", EmptyDict, now)]
    IN  Outcome(s2, files, Ok([status |-> s2.status]), now + 1,
                <<[timestamp |-> isoformat(now), action |-> "agent_stopped", details |-> EmptyDict]>>)

\* variant: an unknown action puts the agent into the declared error status
control_invalid_SetsError(st, files, control, now) ==
    Outcome([st EXCEPT !.status = "error"], files, HTTPException(400, "Invalid action"), now, <<>>)

control_invalid(st, files, control, now) ==
    Outcome(st, files, HTTPException(400, "Invalid action"), now, <<>>)

control_agent(st, files, control, now) ==
    CASE control.action = "start"  -> control_start(st, files, control, now)
      [] control.action = "pause"  -> control_pause(st, files, control, now)
      [] control.action = "resume" -> control_resume(st, files, control, now)
      [] control.action = "stop"   -> control_stop(st, files, control, now)
      [] OTHER                     -> control_invalid(st, files, control, now)

\* ---- POST /api/tasks ---------------------------------------------------
\* variant: the ids are read under the key "feature_id"
feature_ids_WrongKey(features) ==
    LET listed == Get(features, "features", <<>>)
    IN  [i \in 1..Len(listed) |-> Get(listed[i], "feature_id", None)]

feature_ids(features) ==
    LET listed == Get(features, "features", <<>>)
    IN  [i \in 1..Len(listed) |-> Get(listed[i], "id", None)]

\* variant: the list is created anew on every call
queue_append_Reset(queue, new_task) ==
    Put(queue, "queue", <<new_task>>)

queue_append(queue, new_task) ==
    LET q1 == IF "queue" \notin DOMAIN queue THEN Put(queue, "queue", <<>>) ELSE queue
    IN  Put(q1, "queue", Append(q1["queue"], new_task))

create_task(st, files, task, now) ==
    LET queue == load_json_file(files, QUEUE_FILE)
        features == load_json_file(files, FEATURES_FILE)
    IN  IF json_load_raises(files, QUEUE_FILE) \/ json_load_raises(files, FEATURES_FILE)
        THEN Outcome(st, files, ServerError, now, <<>>)
        ELSE IF ~Contains(feature_ids(features), task.feature_id)
        THEN Outcome(st, files, HTTPException(404, "Feature not found"), now, <<>>)
        ELSE LET new_task == [feature_id |-> task.feature_id, status |-> "pending",
                              created_at |-> isoformat(now), priority |-> task.priority]
                 q2 == queue_append(queue, new_task)
                 details == [feature_id |-> task.feature_id]
                 s1 == [st EXCEPT !.audit_log = add_audit_log(st.audit_log, "task_created", details, now + 1)]
             IN  Outcome(s1, save_json_file(files, QUEUE_FILE, q2),
                         Ok([status |-> "created", task |-> new_task]), now + 2,
                         <<[timestamp |-> isoformat(now + 1), action |-> "task_created", details |-> details]>>)

\* ---- PATCH /api/tasks/{feature_id} -------------------------------------
\* variant: the loop keeps going and the last matching task wins
RECURSIVE FirstMatch_Last(_, _, _)
FirstMatch_Last(tasks, feature_id, i) ==
    IF i > Len(tasks) THEN 0
    ELSE LET later == FirstMatch_Last(tasks, feature_id, i + 1)
         IN  IF later # 0 THEN later
             ELSE IF Get(tasks[i], "feature_id", None) = feature_id THEN i ELSE 0

RECURSIVE FirstMatch(_, _, _)
FirstMatch(tasks, feature_id, i) ==
    IF i > Len(tasks) THEN 0
    ELSE IF Get(tasks[i], "feature_id", None) = feature_id THEN i
    ELSE FirstMatch(tasks, feature_id, i + 1)

\* variant: the document is written back also when no task matches
update_task_WritesOnMiss(st, files, feature_id, update, now) ==
    LET queue == load_json_file(files, QUEUE_FILE)
        tasks == Get(queue, "queue", <<>>)
        i == FirstMatch(tasks, feature_id, 1)
    IN  IF i = 0
        THEN Outcome(st, save_json_file(files, QUEUE_FILE, queue),
                     HTTPException(404, "Task not found"), now, <<>>)
        ELSE LET old_status == Get(tasks[i], "status", None)
                 task == Put(Put(tasks[i], "status", update.status), "updated_at", isoformat(now))
                 q1 == Put(queue, "queue", [tasks EXCEPT ![i] = task])
                 details == [feature_id |-> feature_id, old_status |-> old_status,
                             new_status |-> update.status]
                 s1 == [st EXCEPT !.audit_log = add_audit_log(st.audit_log, "task_updated", details, now + 1)]
             IN  Outcome(s1, save_json_file(files, QUEUE_FILE, q1),
                         Ok([status |-> "updated", task |-> task]), now + 2,
                         <<[timestamp |-> isoformat(now + 1), action |-> "task_updated", details |-> details]>>)

\* variant: the document is written as it was loaded
update_task_StaleWrite(st, files, feature_id, update, now) ==
    LET queue == load_json_file(files, QUEUE_FILE)
        tasks == Get(queue, "queue", <<>>)
        i == FirstMatch(tasks, feature_id, 1)
    IN  IF i = 0
        THEN Outcome(st, files, HTTPException(404, "Task not found"), now, <<>>)
        ELSE LET old_status == Get(tasks[i], "status", None)
                 task == Put(Put(tasks[i], "status", update.status), "updated_at", isoformat(now))
                 details == [feature_id |-> feature_id, old_status |-> old_status,
                             new_status |-> update.status]
                 s1 == [st EXCEPT !.audit_log = add_audit_log(st.audit_log, "task_updated", details, now + 1)]
             IN  Outcome(s1, save_json_file(files, QUEUE_FILE, queue),
                         Ok([status |-> "updated", task |-> task]), now + 2,
                         <<[timestamp |-> isoformat(now + 1), action |-> "task_updated", details |-> details]>>)

update_task(st, files, feature_id, update, now) ==
    LET queue == load_json_file(files, QUEUE_FILE)
        tasks == Get(queue, "queue", <<>>)
        i == FirstMatch(tasks, feature_id, 1)
    IN  IF json_load_raises(files, QUEUE_FILE)
        THEN Outcome(st, files, ServerError, now, <<>>)
        ELSE IF i = 0
        THEN Outcome(st, files, HTTPException(404, "Task not found"), now, <<>>)
        ELSE LET old_status == Get(tasks[i], "status", None)
                 task == Put(Put(tasks[i], "status", update.status), "updated_at", isoformat(now))
                 q1 == Put(queue, "queue", [tasks EXCEPT ![i] = task])
                 details == [feature_id |-> feature_id, old_status |-> old_status,
                             new_status |-> update.status]
                 s1 == [st EXCEPT !.audit_log = add_audit_log(st.audit_log, "task_updated", details, now + 1)]
             IN  Outcome(s1, save_json_file(files, QUEUE_FILE, q1),
                         Ok([status |-> "updated", task |-> task]), now + 2,
                         <<[timestamp |-> isoformat(now + 1), action |-> "task_updated", details |-> details]>>)

\* ---- the same two handlers when save_json_file raises ---------------------
\* The IOError leaves the handler before add_audit_log is reached.
create_task_save_raises(st, files, task, now, at) ==
    LET queue == load_json_file(files, QUEUE_FILE)
        features == load_json_file(files, FEATURES_FILE)
    IN  IF json_load_raises(files, QUEUE_FILE) \/ json_load_raises(files, FEATURES_FILE)
        THEN Outcome(st, files, ServerError, now, <<>>)
        ELSE IF ~Contains(feature_ids(features), task.feature_id)
        THEN Outcome(st, files, HTTPException(404, "Feature not found"), now, <<>>)
        ELSE LET new_task == [feature_id |-> task.feature_id, status |-> "pending",
                              created_at |-> isoformat(now), priority |-> task.priority]
                 q2 == queue_append(queue, new_task)
             IN  Outcome(st, save_json_file_raises(files, QUEUE_FILE, q2, at), ServerError, now + 1, <<>>)

update_task_save_raises(st, files, feature_id, update, now, at) ==
    LET queue == load_json_file(files, QUEUE_FILE)
        tasks == Get(queue, "queue", <<>>)
        i == FirstMatch(tasks, feature_id, 1)
    IN  IF json_load_raises(files, QUEUE_FILE)
        THEN Outcome(st, files, ServerError, now, <<>>)
        ELSE IF i = 0
        THEN Outcome(st, files, HTTPException(404, "Task not found"), now, <<>>)
        ELSE LET task == Put(Put(tasks[i], "status", update.status), "updated_at", isoformat(now))
                 q1 == Put(queue, "queue", [tasks EXCEPT ![i] = task])
             IN  Outcome(st, save_json_file_raises(files, QUEUE_FILE, q1, at), ServerError, now + 1, <<>>)

\* ---- GET /api/logs/stream ----------------------------------------------
\* One session per subscriber: where its generator is suspended (pc), the
\* generator's locals last_idx, i and the end of the current range (stop),
\* and, for the properties, the length of log_buffer when the request came
\* in (joined) and the events yielded so far (received).
NoSession ==
    [pc |-> "none", last_idx |-> 0, i |-> 0, stop |-> 0, joined |-> 0, received |-> <<>>]

\* what a step of a session leaves: the session and the shared buffer
StreamOutcome(ses, buffer) == [session |-> ses, buffer |-> buffer]

\* the producer's log_buffer.append(line)
publish(buffer, line) == Append(buffer, line)

\* the request handler: the response is built around a generator whose body
\* has not run yet
stream_logs(ses, buffer) ==
    StreamOutcome([ses EXCEPT !.pc = "created", !.joined = Len(buffer)], buffer)

\* yield f"data: {log_buffer[i]}\n\n" (i counts from 0)
yield_line(ses, buffer, i) ==
    [ses EXCEPT !.pc = "yielded", !.i = i,
                !.received = Append(@, [idx |-> i, event |-> "data: " \o buffer[i + 1] \o "\n\n"])]

\* the top of the while loop: the range is fixed here, the first line of it
\* is yielded; with nothing new the generator sleeps
poll(ses, buffer) ==
    IF Len(buffer) > ses.last_idx
    THEN yield_line([ses EXCEPT !.stop = Len(buffer)], buffer, ses.last_idx)
    ELSE [ses EXCEPT !.pc = "sleeping"]

\* the first run of the body
generator_start(ses, buffer) ==
    StreamOutcome(poll([ses EXCEPT !.last_idx = 0], buffer), buffer)

\* asyncio.sleep(0.1) is over
generator_wake(ses, buffer) == StreamOutcome(poll(ses, buffer), buffer)

\* variant: the buffer is emptied once a batch is sent
generator_resume_Drains(ses, buffer) ==
    IF ses.i + 1 < ses.stop
    THEN StreamOutcome(yield_line(ses, buffer, ses.i + 1), buffer)
    ELSE StreamOutcome([ses EXCEPT !.pc = "sleeping", !.last_idx = 0], <<>>)

\* variant: last_idx += len(log_buffer)
generator_resume_AddsLength(ses, buffer) ==
    IF ses.i + 1 < ses.stop
    THEN StreamOutcome(yield_line(ses, buffer, ses.i + 1), buffer)
    ELSE StreamOutcome([ses EXCEPT !.pc = "sleeping", !.last_idx = @ + Len(buffer)], buffer)

\* the consumer asks for the next event: the for loop goes on, and after its
\* last line last_idx is set to the length the buffer has by then
generator_resume(ses, buffer) ==
    IF ses.i + 1 < ses.stop
    THEN StreamOutcome(yield_line(ses, buffer, ses.i + 1), buffer)
    ELSE StreamOutcome([ses EXCEPT !.pc = "sleeping", !.last_idx = Len(buffer)], buffer)

\* the client goes away: the generator is closed where it is suspended
generator_close(ses, buffer) == StreamOutcome([ses EXCEPT !.pc = "closed"], buffer)

\* ---- the state after construction --------------------------------------
InitialAgentState ==
    [status |-> "idle", current_role |-> None, current_feature |-> None,
     started_at |-> None, logs |-> <<>>, audit_log |-> <<>>]

FeatureCatalog == [features |-> [i \in 1..Len(CatalogIds) |-> [id |-> CatalogIds[i]]]]

\* The harness directory holds the feature catalog; the task-queue document
\* is either not there yet or holds an empty queue.
InitialDisks ==
    { Put(EmptyDict, FEATURES_FILE, FeatureCatalog),
      Put(Put(EmptyDict, FEATURES_FILE, FeatureCatalog), QUEUE_FILE, [queue |-> <<>>]) }

Init ==
    /\ agent_state = InitialAgentState
    /\ disk \in InitialDisks
    /\ clock = 0
    /\ history = <<>>
    /\ appended = <<>>
    /\ log_buffer = <<>>
    /\ sessions = [s \in Subscribers |-> NoSession]

\* ---- GET /api/audit-log, GET /api/tasks ---------------------------------
get_audit_log(st) == st.audit_log

get_tasks(files) == load_json_file(files, QUEUE_FILE)

\* ---- one action per handler --------------------------------------------
Apply(call, r) ==
    /\ agent_state' = r.state
    /\ disk' = r.files
    /\ clock' = r.clock
    /\ history' = Append(history, [call |-> call, response |-> r.response])
    /\ appended' = appended \o r.logged
    /\ UNCHANGED <<log_buffer, sessions>>

ControlAgent ==
    /\ Len(history) < MaxCalls
    /\ \E control \in AgentControl :
          Apply([op |-> "control_agent", action |-> control.action, feature_id |-> control.feature_id,
                 status |-> None],
                control_agent(agent_state, disk, control, clock))

CreateTask ==
    /\ Len(history) < MaxCalls
    /\ \E task \in TaskCreate :
          Apply([op |-> "create_task", action |-> None, feature_id |-> task.feature_id, status |-> None],
                create_task(agent_state, disk, task, clock))

UpdateTask ==
    /\ Len(history) < MaxCalls
    /\ \E feature_id \in FeatureIds, update \in TaskUpdate :
          Apply([op |-> "update_task", action |-> None, feature_id |-> feature_id,
                 status |-> update.status],
                update_task(agent_state, disk, feature_id, update, clock))

Next == ControlAgent \/ CreateTask \/ UpdateTask

Spec == Init /\ [][Next]_vars

\* ---- storage that can fail: a save may raise an IOError -----------------
CreateTaskIOError ==
    /\ Len(history) < MaxCalls
    /\ \E task \in TaskCreate, at \in SaveFailures :
          Apply([op |-> "create_task", action |-> None, feature_id |-> task.feature_id, status |-> None],
                create_task_save_raises(agent_state, disk, task, clock, at))

UpdateTaskIOError ==
    /\ Len(history) < MaxCalls
    /\ \E feature_id \in FeatureIds, update \in TaskUpdate, at \in SaveFailures :
          Apply([op |-> "update_task", action |-> None, feature_id |-> feature_id,
                 status |-> update.status],
                update_task_save_raises(agent_state, disk, feature_id, update, clock, at))

NextIO == Next \/ CreateTaskIOError \/ UpdateTaskIOError

SpecIO == Init /\ [][NextIO]_vars

\* ---- the log stream: a producer and the subscribers' sessions ------------
StreamStep(s, r) ==
    /\ sessions' = [sessions EXCEPT ![s] = r.session]
    /\ log_buffer' = r.buffer
    /\ UNCHANGED <<agent_state, disk, clock, history, appended>>

Publish ==
    /\ Len(log_buffer) < MaxLines
    /\ \E line \in LogLines : log_buffer' = publish(log_buffer, line)
    /\ UNCHANGED <<agent_state, disk, clock, history, appended, sessions>>

Connect(s) ==
    /\ sessions[s].pc = "none"
    /\ StreamStep(s, stream_logs(sessions[s], log_buffer))

Start(s) ==
    /\ sessions[s].pc = "created"
    /\ StreamStep(s, generator_start(sessions[s], log_buffer))

Wake(s) ==
    /\ sessions[s].pc = "sleeping"
    /\ StreamStep(s, generator_wake(sessions[s], log_buffer))

Resume(s) ==
    /\ sessions[s].pc = "yielded"
    /\ StreamStep(s, generator_resume(sessions[s], log_buffer))

Disconnect(s) ==
    /\ sessions[s].pc \in {"created", "yielded", "sleeping"}
    /\ StreamStep(s, generator_close(sessions[s], log_buffer))

NextStream ==
    \/ Publish
    \/ \E s \in Subscribers : Connect(s)
    \/ \E s \in Subscribers : Start(s)
    \/ \E s \in Subscribers : Wake(s)
    \/ \E s \in Subscribers : Resume(s)
    \/ \E s \in Subscribers : Disconnect(s)

SpecStream == Init /\ [][NextStream]_vars

\* The event loop runs every generator that is ready: a created one is
\* started, a sleeping one wakes after its 0.1 s, and a client that stays
\* connected keeps asking for the next event.
StreamFairness ==
    \A s \in Subscribers :
        WF_vars(Start(s)) /\ WF_vars(Wake(s)) /\ WF_vars(Resume(s))

SpecStreamFair == SpecStream /\ StreamFairness

\* ---- a long-running server: PreCalls start requests were handled before -
\* ---- the calls explored here (history starts at the first state) --------
StartOnce(before) ==
    LET r == control_agent(before.state, before.files,
                           [action |-> "start", role |-> None, feature_id |-> None], before.clock)
    IN  [r EXCEPT !.logged = before.logged \o r.logged]

\* n start calls handled one after the other (each is answered with 200):
\* the first half of them, then the rest.
RECURSIVE StartsFrom(_, _)
StartsFrom(before, n) ==
    IF n = 0 THEN before
    ELSE IF n = 1 THEN StartOnce(before)
    ELSE LET half == StartsFrom(before, n \div 2)
         IN  IF half.response.code = 200 THEN StartsFrom(half, n - (n \div 2)) ELSE before

AfterStarts(n) ==
    StartsFrom(Outcome(InitialAgentState, Put(EmptyDict, FEATURES_FILE, FeatureCatalog),
                       Ok(EmptyDict), 0, <<>>), n)

InitFull ==
    LET r == AfterStarts(PreCalls)
    IN  /\ agent_state = r.state
        /\ disk = r.files
        /\ clock = r.clock
        /\ history = <<>>
        /\ appended = r.logged
        /\ log_buffer = <<>>
        /\ sessions = [s \in Subscribers |-> NoSession]

SpecFull == InitFull /\ [][Next]_vars

\* ======================================================================
\* Properties
\* ======================================================================
Last(s) == s[Len(s)]
Handled == Len(history') = Len(history) + 1
ThisCall == history'[Len(history')]
Succeeded(h) == h.response.code = 200
SuccessfulCalls(op) == SelectSeq(history, LAMBDA h : h.call.op = op /\ Succeeded(h))
PersistedQueue == Get(get_tasks(disk), "queue", <<>>)
LifecycleActions == {"start", "pause", "resume", "stop"}

\* C1: every controlAgent call with an action of {start, pause, resume, stop}
\* follows the transition table: start always succeeds and yields running,
\* pause succeeds exactly from running and yields paused, resume succeeds
\* exactly from paused and yields running, stop always succeeds and yields
\* idle; a pause or resume from any other status is rejected.
C1_TransitionTable ==
    [][ (Handled /\ ThisCall.call.op = "control_agent" /\ ThisCall.call.action \in LifecycleActions) =>
        LET a == ThisCall.call.action
            ok == Succeeded(ThisCall)
            from == agent_state.status
            to == agent_state'.status
        IN  /\ a = "start" => ok /\ to = "running"
            /\ a = "pause" => IF from = "running" THEN ok /\ to = "paused" ELSE ~ok /\ to = from
            /\ a = "resume" => IF from = "paused" THEN ok /\ to = "running" ELSE ~ok /\ to = from
            /\ a = "stop" => ok /\ to = "idle"
            /\ ok => ThisCall.response.body.status = to ]_vars

\* a pause refused while idle, then start, pause and resume all accepted
C1_Witness ==
    \E i, j, k \in 1..Len(history) :
        /\ i < j /\ j < k
        /\ history[i].call.action = "pause" /\ ~Succeeded(history[i])
        /\ history[j].call.action = "pause" /\ Succeeded(history[j])
        /\ history[k].call.action = "resume" /\ Succeeded(history[k])
        /\ agent_state.status = "running"

\* C2: a controlAgent call that is a pause outside running, a resume outside
\* paused or an unknown action is answered with an error, and every call
\* answered with an error leaves status, current_role, current_feature,
\* started_at and the audit log as they were.
C2_RejectedLeavesState ==
    [][ (Handled /\ ThisCall.call.op = "control_agent") =>
        LET a == ThisCall.call.action
            from == agent_state.status
            illegal == \/ a = "pause" /\ from # "running"
                       \/ a = "resume" /\ from # "paused"
                       \/ a \notin LifecycleActions
        IN  /\ illegal => ThisCall.response.code = 400
            /\ ~Succeeded(ThisCall) =>
                  /\ agent_state'.status = agent_state.status
                  /\ agent_state'.current_role = agent_state.current_role
                  /\ agent_state'.current_feature = agent_state.current_feature
                  /\ agent_state'.started_at = agent_state.started_at
                  /\ get_audit_log(agent_state') = get_audit_log(agent_state)
                  /\ appended' = appended ]_vars

\* an unknown action and a resume have both been refused while the agent runs
\* with a role, a feature and a start time set
C2_Witness ==
    /\ \E i \in 1..Len(history) : history[i].call.action = "restart" /\ ~Succeeded(history[i])
    /\ Len(history) > 0 /\ Last(history).call.action = "resume" /\ ~Succeeded(Last(history))
    /\ agent_state.status = "running"
    /\ agent_state.current_role = "coder"
    /\ agent_state.started_at # None
    /\ Len(get_audit_log(agent_state)) > 0

\* C3: after a successful stop the status is idle and current_role,
\* current_feature and started_at are all cleared.
C3_StopClearsAll ==
    (Len(history) > 0 /\ Last(history).call.action = "stop" /\ Succeeded(Last(history))) =>
        /\ agent_state.status = "idle"
        /\ agent_state.current_role = None
        /\ agent_state.current_feature = None
        /\ agent_state.started_at = None

\* C4: check, status write and audit append of one call are not interleaved
\* with another call: a pause handled while running succeeds and appends one
\* agent_paused entry, and a pause handled right after a successful pause is
\* refused and appends nothing (likewise for resume against paused).
C4_OneOfTwoSucceeds ==
    [][ (Handled /\ ThisCall.call.op = "control_agent" /\ ThisCall.call.action \in {"pause", "resume"}) =>
        LET a == ThisCall.call.action
            needed == IF a = "pause" THEN "running" ELSE "paused"
            entry == IF a = "pause" THEN "agent_paused" ELSE "agent_resumed"
            second == /\ Len(history) > 0
                      /\ Last(history).call.action = a
                      /\ Succeeded(Last(history))
        IN  /\ agent_state.status = needed =>
                  /\ Succeeded(ThisCall)
                  /\ Len(appended') = Len(appended) + 1
                  /\ Last(appended').action = entry
            /\ second =>
                  /\ ~Succeeded(ThisCall)
                  /\ appended' = appended
                  /\ agent_state' = agent_state ]_vars

\* two pause calls handled back to back against a running agent: the first
\* accepted, the second refused, one agent_paused entry in the log
C4_Witness ==
    /\ Len(history) >= 3
    /\ history[Len(history) - 1].call.action = "pause" /\ Succeeded(history[Len(history) - 1])
    /\ Last(history).call.action = "pause" /\ ~Succeeded(Last(history))
    /\ Cardinality({i \in 1..Len(appended) : appended[i].action = "agent_paused"}) = 1

\* C5: the agent_* entries of the audit log are, in order, the audit names
\* of the successful controlAgent calls (one entry per successful call).
AuditName(a) ==
    CASE a = "start" -> "agent_started"
      [] a = "pause" -> "agent_paused"
      [] a = "resume" -> "agent_resumed"
      [] a = "stop" -> "agent_stopped"
      [] OTHER -> "none"

C5_TransitionsRecorded ==
    LET transitions == SuccessfulCalls("control_agent")
        entries == SelectSeq(get_audit_log(agent_state),
                             LAMBDA e : e.action \in {"agent_started", "agent_paused",
                                                      "agent_resumed", "agent_stopped"})
    IN  /\ Len(entries) = Len(transitions)
        /\ \A i \in 1..Len(entries) : entries[i].action = AuditName(transitions[i].call.action)

\* start, pause, resume and stop have all succeeded, in this order
C5_Witness ==
    /\ Len(history) = 4
    /\ \A i \in 1..4 : Succeeded(history[i])
    /\ <<history[1].call.action, history[2].call.action,
         history[3].call.action, history[4].call.action>> = <<"start", "pause", "resume", "stop">>

\* C6: the audit log never holds more than 100 entries.
C6_AuditLogBounded == Len(get_audit_log(agent_state)) <= AuditCapacity

\* more than 100 entries have been appended by lifecycle, create and update calls
C6_Witness ==
    /\ Len(appended) > AuditCapacity
    /\ Len(get_audit_log(agent_state)) = AuditCapacity
    /\ \E i, j, k \in 1..Len(appended) :
          /\ appended[i].action = "task_created"
          /\ appended[j].action = "task_updated"
          /\ appended[k].action = "agent_stopped"

\* C7: the audit log is the most recent (at most 100) appended entries in
\* append order, so eviction removes the oldest entries and an entry in the
\* log is never changed or moved by a later append.
MostRecent(s, n) ==
    LET m == IF Len(s) < n THEN Len(s) ELSE n
    IN  [i \in 1..m |-> s[Len(s) - m + i]]

C7_FifoEviction == get_audit_log(agent_state) = MostRecent(appended, AuditCapacity)

\* two entries have been evicted
C7_Witness ==
    /\ Len(appended) = AuditCapacity + 2
    /\ get_audit_log(agent_state)[1] = appended[3]
    /\ Last(get_audit_log(agent_state)) = Last(appended)

\* C8: the persisted queue holds the task of every successful createTask call
\* and its length is the number of successful createTask calls.
C8_NoLostCreate ==
    LET created == SuccessfulCalls("create_task")
    IN  /\ Len(PersistedQueue) = Len(created)
        /\ \A i \in 1..Len(created) :
              \E j \in 1..Len(PersistedQueue) :
                  /\ PersistedQueue[j].feature_id = created[i].call.feature_id
                  /\ PersistedQueue[j].created_at = created[i].response.body.task.created_at

\* createTask calls for two distinct catalog features have both succeeded
C8_Witness ==
    /\ \E i, j \in 1..Len(history) :
          /\ history[i].call.op = "create_task" /\ Succeeded(history[i])
          /\ history[j].call.op = "create_task" /\ Succeeded(history[j])
          /\ history[i].call.feature_id # history[j].call.feature_id
    /\ Len(PersistedQueue) >= 2

\* C9: the persisted queue reflects every successful createTask and
\* updateTask: it has one task per successful create, the first task of a
\* feature carries the status and updated_at of the latest successful update
\* of that feature, and every other task is still pending and never updated.
C9_NoLostUpdate ==
    /\ Len(PersistedQueue) = Len(SuccessfulCalls("create_task"))
    /\ \A i \in 1..Len(PersistedQueue) :
          LET t == PersistedQueue[i]
              first == \A j \in 1..(i - 1) : PersistedQueue[j].feature_id # t.feature_id
              updates == SelectSeq(history, LAMBDA h : /\ h.call.op = "update_task"
                                                       /\ Succeeded(h)
                                                       /\ h.call.feature_id = t.feature_id)
          IN  IF first /\ updates # <<>>
              THEN /\ t.status = Last(updates).call.status
                   /\ "updated_at" \in DOMAIN t
                   /\ t.updated_at = Last(updates).response.body.task.updated_at
              ELSE /\ t.status = "pending"
                   /\ "updated_at" \notin DOMAIN t

\* create, update, create, update on two different features, all successful
C9_Witness ==
    /\ Len(history) = 4
    /\ \A i \in 1..4 : Succeeded(history[i])
    /\ <<history[1].call.op, history[2].call.op, history[3].call.op, history[4].call.op>>
          = <<"create_task", "update_task", "create_task", "update_task">>
    /\ history[2].call.feature_id # history[4].call.feature_id
    /\ history[2].call.status # history[4].call.status

\* C10: createTask for a feature of the catalog answers with a pending task
\* and appends it to the persisted queue; createTask for a feature outside
\* the catalog answers 404 "Feature not found" and leaves the persisted
\* queue document and the audit log unchanged.
InCatalog(f) == \E i \in 1..Len(CatalogIds) : CatalogIds[i] = f

C10_CreateValidates ==
    [][ (Handled /\ ThisCall.call.op = "create_task") =>
        IF InCatalog(ThisCall.call.feature_id)
        THEN /\ Succeeded(ThisCall)
             /\ ThisCall.response.body.task.status = "pending"
             /\ ThisCall.response.body.task.feature_id = ThisCall.call.feature_id
             /\ Get(get_tasks(disk'), "queue", <<>>) = Append(PersistedQueue, ThisCall.response.body.task)
        ELSE /\ ThisCall.response = HTTPException(404, "Feature not found")
             /\ disk' = disk
             /\ get_audit_log(agent_state') = get_audit_log(agent_state)
             /\ appended' = appended ]_vars

\* a create for F1 was accepted and a later create for F9 was refused
C10_Witness ==
    /\ \E i, j \in 1..Len(history) :
          /\ i < j
          /\ history[i].call.op = "create_task" /\ history[i].call.feature_id = "F1"
          /\ Succeeded(history[i])
          /\ history[j].call.op = "create_task" /\ history[j].call.feature_id = "F9"
          /\ ~Succeeded(history[j])
    /\ Len(PersistedQueue) = 1

\* C11: updateTask for a feature id that no task of the queue carries answers
\* 404 "Task not found", writes nothing, and leaves the persisted documents
\* and the audit log unchanged.
HasTask(f) == \E i \in 1..Len(PersistedQueue) : PersistedQueue[i].feature_id = f

C11_UpdateMissing ==
    [][ (Handled /\ ThisCall.call.op = "update_task" /\ ~HasTask(ThisCall.call.feature_id)) =>
        /\ ThisCall.response = HTTPException(404, "Task not found")
        /\ disk' = disk
        /\ get_audit_log(agent_state') = get_audit_log(agent_state)
        /\ appended' = appended ]_vars

\* an update for F2 was refused while the queue holds a task for F1 only
C11_Witness ==
    /\ Len(history) > 0
    /\ Last(history).call.op = "update_task" /\ Last(history).call.feature_id = "F2"
    /\ ~Succeeded(Last(history))
    /\ Len(PersistedQueue) = 1 /\ PersistedQueue[1].feature_id = "F1"
    /\ Len(get_audit_log(agent_state)) = 1

\* C15: a successful updateTask changes only the first task, in queue order,
\* with the given feature id: its status becomes the new status and its
\* updated_at is set, the old status recorded is the one it had before, and
\* all other tasks (later ones of the same feature included), the length and
\* the order of the queue stay as they were.
C15_UpdateFirstOnly ==
    [][ (Handled /\ ThisCall.call.op = "update_task" /\ Succeeded(ThisCall)) =>
        LET old == PersistedQueue
            new == Get(get_tasks(disk'), "queue", <<>>)
            f == ThisCall.call.feature_id
            k == CHOOSE i \in 1..Len(old) :
                    /\ old[i].feature_id = f
                    /\ \A j \in 1..(i - 1) : old[j].feature_id # f
        IN  /\ HasTask(f)
            /\ Len(new) = Len(old)
            /\ \A j \in 1..Len(old) : j # k => new[j] = old[j]
            /\ new[k].status = ThisCall.call.status
            /\ "updated_at" \in DOMAIN new[k] /\ new[k].updated_at # None
            /\ new[k].feature_id = old[k].feature_id
            /\ new[k].created_at = old[k].created_at
            /\ new[k].priority = old[k].priority
            /\ ThisCall.response.body.task = new[k]
            /\ Last(appended').details.old_status = old[k].status
            /\ Last(appended').details.new_status = ThisCall.call.status ]_vars

\* two tasks of F1 and one of F2 are queued; an update of F1 reached the
\* first of them only
C15_Witness ==
    /\ Len(PersistedQueue) = 3
    /\ PersistedQueue[1].feature_id = "F2"
    /\ PersistedQueue[2].feature_id = "F1" /\ PersistedQueue[2].status = "done"
    /\ PersistedQueue[3].feature_id = "F1" /\ PersistedQueue[3].status = "pending"
    /\ Last(history).call.op = "update_task" /\ Succeeded(Last(history))

\* C18: the agent status is always idle, running or paused; the declared
\* status error is never set.
C18_StatusNeverError == agent_state.status \in {"idle", "running", "paused"}

\* an unknown action was refused while the agent is paused
C18_Witness ==
    /\ Len(history) > 0
    /\ Last(history).call.action = "restart" /\ ~Succeeded(Last(history))
    /\ agent_state.status = "paused"

\* C19: an idle agent has no current_role and no current_feature, a running
\* or paused agent has started_at set, and a pause or resume call changes
\* none of current_role, current_feature and started_at.
C19_StateFields ==
    /\ agent_state.status = "idle" =>
          agent_state.current_role = None /\ agent_state.current_feature = None
    /\ agent_state.status \in {"running", "paused"} => agent_state.started_at # None

C19_FieldsConsistent ==
    /\ []C19_StateFields
    /\ [][ (Handled /\ ThisCall.call.op = "control_agent"
                    /\ ThisCall.call.action \in {"pause", "resume"}) =>
              /\ agent_state'.current_role = agent_state.current_role
              /\ agent_state'.current_feature = agent_state.current_feature
              /\ agent_state'.started_at = agent_state.started_at ]_vars

\* start with a role, pause and resume accepted, then stop
C19_Witness ==
    /\ Len(history) = 4
    /\ \A i \in 1..4 : Succeeded(history[i])
    /\ <<history[1].call.action, history[2].call.action,
         history[3].call.action, history[4].call.action>> = <<"start", "pause", "resume", "stop">>
    /\ history[1].call.feature_id = "F1"
    /\ agent_state.status = "idle"

\* C14: a createTask or updateTask call that fails with an IOError while
\* persisting leaves the persisted task-queue document exactly as it was and
\* appends no audit entry.
C14_IOErrorLeavesDocument ==
    [][ (Handled /\ ThisCall.call.op \in {"create_task", "update_task"}
                 /\ ThisCall.response = ServerError) =>
        /\ get_tasks(disk') = get_tasks(disk)
        /\ get_audit_log(agent_state') = get_audit_log(agent_state)
        /\ appended' = appended ]_vars

\* ---- the log stream ------------------------------------------------------
Connected(s) == sessions[s].pc \in {"created", "yielded", "sleeping"}
Running(s) == sessions[s].pc \in {"yielded", "sleeping"}
ReceivedIdx(s) == {sessions[s].received[k].idx : k \in 1..Len(sessions[s].received)}

\* C12: a session starts with its cursor at the current length of the log
\* buffer: a subscriber that connects after N lines were published is sent
\* none of those N lines, only lines published after it connected.
C12_NoBacklog ==
    \A s \in Subscribers :
        /\ Running(s) => sessions[s].last_idx >= sessions[s].joined
        /\ \A n \in ReceivedIdx(s) : n >= sessions[s].joined

\* C13: a subscriber connected from the start is sent every published line
\* once and in publish order: what it has been sent is always a prefix of the
\* published lines, whatever is published while it is suspended in a batch.
C13_PrefixOfPublished ==
    \A s \in Subscribers :
        (sessions[s].pc # "none" /\ sessions[s].joined = 0) =>
            /\ Len(sessions[s].received) <= Len(log_buffer)
            /\ \A k \in 1..Len(sessions[s].received) :
                  /\ sessions[s].received[k].idx = k - 1
                  /\ sessions[s].received[k].event = "data: " \o log_buffer[k] \o "\n\n"

\* C16: a step of one session (yield, cursor advance, close) changes neither
\* the log buffer nor any other session, and closed sessions do not keep the
\* producer from appending.
C16_SessionsIndependent ==
    /\ [][ \A s \in Subscribers :
              sessions'[s] # sessions[s] =>
                  /\ log_buffer' = log_buffer
                  /\ \A t \in Subscribers \ {s} : sessions'[t] = sessions[t] ]_vars
    /\ []( Len(log_buffer) < MaxLines => ENABLED Publish )

\* one session was closed in the middle of a batch; the other one has been
\* sent all three lines
C16_Witness ==
    /\ sessions["s1"].pc = "closed"
    /\ sessions["s1"].stop = 2 /\ Len(sessions["s1"].received) = 1
    /\ Len(log_buffer) = 3
    /\ ReceivedIdx("s2") = {0, 1, 2}

\* C17: with the generators scheduled fairly, every line published after a
\* subscriber connected is eventually sent to it, unless it is cancelled.
C17_EventuallyDelivered ==
    \A s \in Subscribers : \A n \in 0..(MaxLines - 1) :
        (Connected(s) /\ n >= sessions[s].joined /\ n < Len(log_buffer))
            ~> (sessions[s].pc = "closed" \/ n \in ReceivedIdx(s))

\* C20: a session's cursor never decreases and never exceeds the length of
\* the log buffer, and the log buffer only grows at its end.
C20_CursorAndBuffer ==
    /\ [](\A s \in Subscribers : sessions[s].last_idx <= Len(log_buffer))
    /\ [][ /\ \A s \in Subscribers : sessions'[s].last_idx >= sessions[s].last_idx
           /\ Len(log_buffer') >= Len(log_buffer)
           /\ SubSeq(log_buffer', 1, Len(log_buffer)) = log_buffer ]_vars

\* one session has caught up with all three lines, the other one is
\* suspended in its first batch with its cursor still at the start
C20_Witness ==
    /\ Len(log_buffer) = 3
    /\ sessions["s1"].pc = "sleeping" /\ sessions["s1"].last_idx = 3
    /\ sessions["s2"].pc = "yielded" /\ sessions["s2"].last_idx = 0 /\ sessions["s2"].i = 1

====
